---- MODULE Spec2Model ----
(***************************************************************************)
(* PodReader (src/app.py): the caption cleaner, the model selector and the *)
(* JSON history file, as state machines.                                   *)
(*                                                                         *)
(* Text is a sequence of one-character strings; "\n" is the newline.       *)
(* Four specifications share the variables:                                *)
(*   SpecClean    clean_transcript, called on a transcript and again on    *)
(*                its own output;                                          *)
(*   SpecModel    choose_model against the token-estimate endpoint;        *)
(*   Spec         the history routes, one request at a time;               *)
(*   SpecRace     the history writers, interleaved at their file steps.    *)
(***************************************************************************)
EXTENDS Integers, Sequences, FiniteSets, TLC

VARIABLES
    \* clean_transcript
    transcript,     \* the argument of the first call
    calls,          \* number of calls of clean_transcript made (0..2)
    lines,          \* the local `lines` of the last call (line 107)
    kept,           \* the indices i (1-based) appended to unique_lines, in order
    raised,         \* the last call raised IndexError
    out,            \* the value the last call returned
    out1,           \* the value the first call returned
    \* choose_model
    messages,       \* the argument: the content of each message, in order
    mpc,            \* "call" before the call, then "returned" or "raised"
    response,       \* what requests.post gave the call
    token_count,    \* the local token_count, in tenths of a token
    model,          \* the value returned
    \* the history file and the routes that use it
    file,           \* summary_history.json: whether it exists, and its content
    last,           \* the last request served alone: its arguments, the file
                    \* it found and its response
    procs,          \* the requests in progress, one per worker thread
    started,        \* number of requests started on the worker threads
    saved,          \* the records of the save_summary calls that completed
    named,          \* the timestamps that delete_summary calls were given
    overlaps        \* the kinds {a, b} of two requests, one started while the
                    \* other was in progress

cleanVars == <<transcript, calls, lines, kept, raised, out, out1>>
modelVars == <<messages, mpc, response, token_count, model>>
histVars == <<file, last, procs, started, saved, named, overlaps>>
vars == <<cleanVars, modelVars, histVars>>

----------------------------------------------------------------------------
(* The parts a specification does not exercise stay as they start. *)

NoResponse == [kind |-> "none", status_code |-> 0, has_total |-> FALSE, total_tokens |-> 0]

CleanIdle ==
    /\ transcript = <<>>
    /\ calls = 0
    /\ lines = <<>>
    /\ kept = <<>>
    /\ raised = FALSE
    /\ out = <<>>
    /\ out1 = <<>>

ModelIdle ==
    /\ messages = <<>>
    /\ mpc = "call"
    /\ response = NoResponse
    /\ token_count = 0
    /\ model = ""

\* The worker threads of the development server (app.run, line 291).
Procs == {1, 2}

NoFile == [exists |-> FALSE, content |-> <<>>]

NoResult == [kind |-> "none", status |-> 0, body |-> "", filename |-> "", history |-> <<>>]

NoRequest ==
    [op |-> "none", youtube_url |-> "", video_title |-> "", reading_time |-> "",
     summary |-> "", timestamp |-> "", file_type |-> "", has_content |-> FALSE,
     content |-> "", before |-> NoFile, resp |-> NoResult]

IdleProc == [pc |-> "idle", op |-> "none", record |-> <<>>, history |-> <<>>]

HistoryIdle ==
    /\ file = NoFile
    /\ last = NoRequest
    /\ procs = [p \in Procs |-> IdleProc]
    /\ started = 0
    /\ saved = {}
    /\ named = {}
    /\ overlaps = {}

----------------------------------------------------------------------------
(* Text helpers *)

NL == "\n"
Whitespace == {" ", NL, "\t"}
Digits == {"0", "1", "2", "3", "4", "5", "6", "7", "8", "9"}

\* str.startswith
StartsWith(s, prefix) ==
    /\ Len(prefix) <= Len(s)
    /\ \A k \in 1..Len(prefix) : s[k] = prefix[k]

\* A regex item matches a character: "\\d" is the class \d, anything else is
\* the literal character.
ItemMatches(item, ch) == IF item = "\\d" THEN ch \in Digits ELSE ch = item

\* The fixed-length pattern pat matches s at position p.
MatchAt(s, p, pat) ==
    /\ p + Len(pat) - 1 <= Len(s)
    /\ \A k \in 1..Len(pat) : ItemMatches(pat[k], s[p + k - 1])

\* Position of the first character at or after p that is in set, 0 if none.
RECURSIVE FindFirst(_, _, _)
FindFirst(s, p, set) ==
    IF p > Len(s) THEN 0
    ELSE IF s[p] \in set THEN p
    ELSE FindFirst(s, p + 1, set)

Drop(s, n) == SubSeq(s, n + 1, Len(s))

\* r'^WEBVTT\n\n' (no MULTILINE: ^ is the start of the text only)
HeaderPattern == <<"W", "E", "B", "V", "T", "T", NL, NL>>

\* re.sub(r'^WEBVTT\n\n', '', transcript), line 93
RemoveHeader(s) ==
    IF MatchAt(s, 1, HeaderPattern) THEN Drop(s, Len(HeaderPattern)) ELSE s

\* r'\d{2}:\d{2}:\d{2}\.\d{3}'
ClockPattern ==
    <<"\\d", "\\d", ":", "\\d", "\\d", ":", "\\d", "\\d", ".", "\\d", "\\d", "\\d">>

\* r'\d{2}:\d{2}:\d{2}\.\d{3} --> \d{2}:\d{2}:\d{2}\.\d{3}', the fixed part
\* of the pattern of line 96
StampPattern == ClockPattern \o <<" ", "-", "-", ">", " ">> \o ClockPattern

\* End of the match of StampPattern followed by  .*\n  at p, 0 if none:
\* . does not match a newline, so the match ends at the first newline after
\* the fixed part, and there is no match without one.
StampMatchEnd(s, p) ==
    IF MatchAt(s, p, StampPattern)
    THEN FindFirst(s, p + Len(StampPattern), {NL})
    ELSE 0

\* re.sub(r'<stamp> --> <stamp>.*\n', '', transcript), line 96
RECURSIVE RemoveTimestamps(_, _)
RemoveTimestamps(s, p) ==
    IF p > Len(s) THEN <<>>
    ELSE LET e == StampMatchEnd(s, p) IN
         IF e # 0 THEN RemoveTimestamps(s, e + 1)
         ELSE <<s[p]>> \o RemoveTimestamps(s, p + 1)

\* End of the match of r'<[^>]+>' at p, 0 if none: "<", at least one
\* character other than ">" (a newline or "<" included), then ">".
TagMatchEnd(s, p) ==
    IF /\ s[p] = "<"
       /\ p + 1 <= Len(s)
       /\ s[p + 1] # ">"
    THEN FindFirst(s, p + 2, {">"})
    ELSE 0

\* re.sub(r'<[^>]+>', '', cleaned_transcript), line 97
RECURSIVE RemoveTags(_, _)
RemoveTags(s, p) ==
    IF p > Len(s) THEN <<>>
    ELSE LET e == TagMatchEnd(s, p) IN
         IF e # 0 THEN RemoveTags(s, e + 1)
         ELSE <<s[p]>> \o RemoveTags(s, p + 1)

\* 'align:start position:0%\n'
AlignPattern ==
    <<"a", "l", "i", "g", "n", ":", "s", "t", "a", "r", "t", " ",
      "p", "o", "s", "i", "t", "i", "o", "n", ":", "0", "%", NL>>

\* re.sub(r'align:start position:0%\n', '', cleaned_transcript), line 100
RECURSIVE RemoveAlign(_, _)
RemoveAlign(s, p) ==
    IF p > Len(s) THEN <<>>
    ELSE IF MatchAt(s, p, AlignPattern)
         THEN RemoveAlign(s, p + Len(AlignPattern))
         ELSE <<s[p]>> \o RemoveAlign(s, p + 1)

\* Length of the run of newlines that starts at p.
RECURSIVE NewlineRun(_, _)
NewlineRun(s, p) ==
    IF p > Len(s) \/ s[p] # NL THEN 0 ELSE 1 + NewlineRun(s, p + 1)

\* re.sub(r'\n{least,}', repl, s): every maximal run of at least `least`
\* newlines becomes repl (lines 103 and 120).
RECURSIVE CollapseNewlines(_, _, _, _)
CollapseNewlines(s, p, least, repl) ==
    IF p > Len(s) THEN <<>>
    ELSE LET run == NewlineRun(s, p) IN
         IF run >= least
         THEN repl \o CollapseNewlines(s, p + run, least, repl)
         ELSE <<s[p]>> \o CollapseNewlines(s, p + 1, least, repl)

\* str.strip(), line 104
RECURSIVE LStrip(_)
LStrip(s) ==
    IF s # <<>> /\ Head(s) \in Whitespace THEN LStrip(Tail(s)) ELSE s

RECURSIVE RStrip(_)
RStrip(s) ==
    IF s # <<>> /\ s[Len(s)] \in Whitespace
    THEN RStrip(SubSeq(s, 1, Len(s) - 1))
    ELSE s

Strip(s) == RStrip(LStrip(s))

\* str.split('\n'), line 107: never empty, ''.split('\n') is [''].
RECURSIVE Split(_)
Split(s) ==
    LET e == FindFirst(s, 1, {NL}) IN
    IF e = 0 THEN <<s>>
    ELSE <<SubSeq(s, 1, e - 1)>> \o Split(Drop(s, e))

\* '\n'.join(list), line 118
RECURSIVE Join(_)
Join(list) ==
    IF list = <<>> THEN <<>>
    ELSE IF Len(list) = 1 THEN list[1]
    ELSE list[1] \o <<NL>> \o Join(Tail(list))

----------------------------------------------------------------------------
(* clean_transcript, lines 90-123 *)

\* range(1, 3) of line 113: j runs over LookaheadStart .. LookaheadStop - 1.
LookaheadStart == 1
LookaheadStop == 3

\* The for loop of lines 113-115 at 0-based index i, from j on: the value j
\* has when the loop is left, and whether lines[i+j] was read past the end
\* (IndexError). Python leaves j at the last value of the range when the
\* range runs out.
RECURSIVE ForJ(_, _, _)
ForJ(ls, i, j) ==
    IF i + j > Len(ls) - 1 THEN [IndexError |-> TRUE, j |-> j]
    ELSE IF ~StartsWith(ls[i + j + 1], ls[i + 1]) THEN [IndexError |-> FALSE, j |-> j]
    ELSE IF j + 1 >= LookaheadStop THEN [IndexError |-> FALSE, j |-> j]
    ELSE ForJ(ls, i, j + 1)

\* The while loop of lines 111-116 from 0-based index i on; idx holds the
\* 1-based indices appended to unique_lines so far.
RECURSIVE DedupLoop(_, _, _)
DedupLoop(ls, i, idx) ==
    IF ~(i < Len(ls) - 1) THEN [raised |-> FALSE, kept |-> idx]
    ELSE LET f == ForJ(ls, i, LookaheadStart) IN
         IF f.IndexError THEN [raised |-> TRUE, kept |-> Append(idx, i + 1)]
         ELSE DedupLoop(ls, i + f.j, Append(idx, i + 1))

\* Lines 93-107: the text the de-dup loop splits into lines.
TrimmedText(t) ==
    LET t1 == RemoveHeader(t)
        t2 == RemoveTimestamps(t1, 1)
        t3 == RemoveTags(t2, 1)
        t4 == RemoveAlign(t3, 1)
        t5 == CollapseNewlines(t4, 1, 3, <<NL, NL>>)
    IN  Strip(t5)

\* Lines 118-120 on the kept indices.
JoinUnique(ls, idx) ==
    CollapseNewlines(Join([k \in 1..Len(idx) |-> ls[idx[k]]]), 1, 2, <<NL>>)

\* The whole call: the locals the claims speak of and the returned text.
clean_transcript(t) ==
    LET ls == Split(TrimmedText(t))
        d  == DedupLoop(ls, 0, <<>>)
    IN  [lines  |-> ls,
         kept   |-> d.kept,
         raised |-> d.raised,
         out    |-> IF d.raised THEN <<>> ELSE JoinUnique(ls, d.kept)]

(* Inputs of clean_transcript *)

\* Largest number of caption lines in a generated transcript.
MaxLines == 5

\* Caption texts: a rolling caption a, ab, abc, unrelated texts, a blank line.
LineTexts == {<<>>, <<"a">>, <<"a", "b">>, <<"a", "b", "c">>, <<"x">>}

RECURSIVE SeqsUpTo(_, _)
SeqsUpTo(S, n) ==
    IF n = 0 THEN {<<>>}
    ELSE LET shorter == SeqsUpTo(S, n - 1) IN
         shorter \cup {Append(q, e) : q \in {r \in shorter : Len(r) = n - 1}, e \in S}

PlainInputs == {Join(ls) : ls \in SeqsUpTo(LineTexts, MaxLines)}

\* A cue of a WebVTT caption track as yt-dlp writes it.
Cue1 ==
    <<"0", "0", ":", "0", "0", ":", "0", "1", ".", "0", "0", "0", " ", "-", "-", ">", " ",
      "0", "0", ":", "0", "0", ":", "0", "2", ".", "5", "0", "0", " ">>
    \o SubSeq(AlignPattern, 1, Len(AlignPattern) - 1)
Word(ch) == <<"<", "c", ">", ch, "<", "/", "c", ">">>

VttInputs ==
    LET head == HeaderPattern
        cue(body) == Cue1 \o <<NL>> \o body \o <<NL, NL>>
    IN  { head \o cue(<<"a">>) \o cue(<<"a">> \o Word("b")) \o cue(<<"x">>),
          head \o cue(<<"a">>) \o cue(<<"x">>) \o cue(Word("b")),
          cue(Word("a")) \o cue(<<"x">>),
          head \o cue(<<"a">>),
          head,
          Cue1,
          \* markup that hides a cue line until the tags are stripped
          <<"x", NL>> \o Word("0") \o Drop(Cue1, 1) \o <<NL, "a", NL, "b">> }

CleanInputs == PlainInputs \cup VttInputs

InitClean ==
    /\ transcript \in CleanInputs
    /\ calls = 0
    /\ lines = <<>>
    /\ kept = <<>>
    /\ raised = FALSE
    /\ out = <<>>
    /\ out1 = <<>>
    /\ ModelIdle
    /\ HistoryIdle

\* clean_transcript(transcript), as download_transcript calls it (line 79)
CleanCall ==
    /\ calls = 0
    /\ LET r == clean_transcript(transcript) IN
        /\ lines' = r.lines
        /\ kept' = r.kept
        /\ raised' = r.raised
        /\ out' = r.out
        /\ out1' = r.out
    /\ calls' = 1
    /\ UNCHANGED <<transcript, modelVars, histVars>>

\* clean_transcript on the text the first call returned
CleanAgain ==
    /\ calls = 1
    /\ ~raised
    /\ LET r == clean_transcript(out1) IN
        /\ lines' = r.lines
        /\ kept' = r.kept
        /\ raised' = r.raised
        /\ out' = r.out
    /\ calls' = 2
    /\ UNCHANGED <<transcript, out1, modelVars, histVars>>

NextClean == CleanCall \/ CleanAgain

SpecClean == InitClean /\ [][NextClean]_vars

----------------------------------------------------------------------------
(* Claims about clean_transcript, under SpecClean *)

IsBlank(l) == \A k \in 1..Len(l) : l[k] \in Whitespace

KeptSet == {kept[k] : k \in 1..Len(kept)}

\* lines p, p+1, p+2 are a rolling caption like A, Ab, Abc: each starts with
\* the text of the one before and adds to it.
Rolling(ls, p) ==
    /\ ~IsBlank(ls[p])
    /\ StartsWith(ls[p + 1], ls[p]) /\ Len(ls[p + 1]) > Len(ls[p])
    /\ StartsWith(ls[p + 2], ls[p + 1]) /\ Len(ls[p + 2]) > Len(ls[p + 1])

\* C1: cleaning is idempotent: when clean_transcript returned on a transcript
\* and returned again on its own output, the second output equals the first.
C1_Idempotent ==
    (calls = 2 /\ ~raised) => out = out1

\* C2: of three consecutive lines that form a rolling caption, wherever they
\* stand in the transcript, the output keeps exactly one.
C2_RollingCaptionKeptOnce ==
    (calls = 1 /\ ~raised) =>
        \A p \in 1..(Len(lines) - 2) :
            Rolling(lines, p) => Cardinality(KeptSet \cap {p, p + 1, p + 2}) = 1

\* C3: clean_transcript does not crash: on every input the de-dup loop stays
\* inside the line list and the call returns a string.
C3_NoCrash ==
    calls >= 1 => ~raised

\* C10: the de-dup step only drops rolling-caption repeats: a non-blank line
\* that starts with the text of neither the line before it nor the line two
\* before it is kept, the last line and the only line included.
C10_OnlyRepeatsDropped ==
    (calls = 1 /\ ~raised) =>
        \A k \in 1..Len(lines) :
            ( /\ ~IsBlank(lines[k])
              /\ (k > 1 => ~StartsWith(lines[k], lines[k - 1]))
              /\ (k > 2 => ~StartsWith(lines[k], lines[k - 2])) )
            => k \in KeptSet

----------------------------------------------------------------------------
(* choose_model, lines 25-58 *)

\* line 25
models == <<"moonshot-v1-8k", "moonshot-v1-32k", "moonshot-v1-128k">>

\* The limits of lines 50 and 52, in tokens.
SmallLimit == 8000
MediumLimit == 32000

\* The factor 1.3 of line 47, in tenths. token_count is held in tenths of a
\* token, so that n words give exactly 13 * n. The comparisons of lines 50-52
\* come out as they do in floating point: no multiple of 1.3 is within 0.1 of
\* a limit (13 * n is never 80000 or 320000), far more than a rounding error.
FallbackFactor == 13
Tenths(n) == 10 * n

\* A message content is a sequence of chunks, a chunk being a text repeated
\* a number of times: [text |-> <<"w", " ">>, times |-> 6153] is 6153 words.
ChunkText(chunk) == chunk.text
ChunkTimes(chunk) == chunk.times

\* "".join([message["content"] for message in messages]), line 47
RECURSIVE JoinContents(_)
JoinContents(msgs) ==
    IF msgs = <<>> THEN <<>> ELSE Head(msgs) \o JoinContents(Tail(msgs))

\* Words of str.split() that start in text u, inWord telling whether the
\* character before u belongs to a word.
WordStarts(u, inWord) ==
    Cardinality({k \in 1..Len(u) :
        /\ u[k] \notin Whitespace
        /\ IF k = 1 THEN ~inWord ELSE u[k - 1] \in Whitespace})

EndsInWord(u, inWord) == IF u = <<>> THEN inWord ELSE u[Len(u)] \notin Whitespace

\* len(content.split()): the number of maximal runs of non-whitespace.
RECURSIVE WordCount(_, _)
WordCount(content, inWord) ==
    IF content = <<>> THEN 0
    ELSE LET u == ChunkText(Head(content))
             n == ChunkTimes(Head(content))
             after == IF n = 0 THEN inWord ELSE EndsInWord(u, inWord)
             here == IF n = 0 THEN 0
                     ELSE WordStarts(u, inWord) + (n - 1) * WordStarts(u, after)
         IN  here + WordCount(Tail(content), after)

\* line 47: the fallback estimate, in tenths
FallbackCount(msgs) == WordCount(JoinContents(msgs), FALSE) * FallbackFactor

\* line 43: response.json().get('data', {}).get('total_tokens', 0), in tenths
ReportedCount(resp) == IF resp.has_total THEN Tenths(resp.total_tokens) ELSE 0

\* lines 50-55 with the limits excluded (< for <=): a count of exactly 8000
\* would select the medium tier.
SelectTierExclusive(count) ==
    IF count < Tenths(SmallLimit) THEN models[1]
    ELSE IF count < Tenths(MediumLimit) THEN models[2]
    ELSE models[3]

\* lines 50-55
SelectTier(count) ==
    IF count <= Tenths(SmallLimit) THEN models[1]
    ELSE IF count <= Tenths(MediumLimit) THEN models[2]
    ELSE models[3]

\* The whole call. requests.post (line 30) is called outside any try: an
\* exception it raises (connection refused, timeout) leaves choose_model.
choose_model(msgs, resp) ==
    IF resp.kind = "network_error"
    THEN [raised |-> TRUE, token_count |-> 0, model |-> ""]
    ELSE LET count == IF resp.status_code = 200
                      THEN ReportedCount(resp)
                      ELSE FallbackCount(msgs)
         IN  [raised |-> FALSE, token_count |-> count, model |-> SelectTier(count)]

(* Inputs of choose_model *)

\* How far the counts tried lie around each limit, in tokens and in words.
TokenSlack == 2
WordSlack == 2

Limits == {SmallLimit, MediumLimit}

TokenCounts ==
    {0} \cup {l + d : l \in Limits, d \in (-TokenSlack)..TokenSlack}

\* Word counts whose estimate lies around a limit: 13 * n around 10 * l.
WordCounts ==
    {0, 1} \cup {(Tenths(l) \div FallbackFactor) + d : l \in Limits, d \in (-WordSlack)..WordSlack}

Contents ==
    {<<>>}
    \cup {<<[text |-> <<"w", " ">>, times |-> n]>> : n \in WordCounts}
    \cup {<<[text |-> <<" ", "w">>, times |-> n]>> : n \in WordCounts}

\* generate_summary (lines 157-160) passes a system and a user message.
MessageLists == {<<sys, usr>> : sys \in {<<>>, <<[text |-> <<"w">>, times |-> 1]>>}, usr \in Contents}

Responses ==
    [kind : {"response"}, status_code : {200}, has_total : {TRUE}, total_tokens : TokenCounts]
    \cup [kind : {"response"}, status_code : {200}, has_total : {FALSE}, total_tokens : {0}]
    \cup [kind : {"response"}, status_code : {401, 429, 500}, has_total : {FALSE}, total_tokens : {0}]
    \cup [kind : {"network_error"}, status_code : {0}, has_total : {FALSE}, total_tokens : {0}]

InitModel ==
    /\ CleanIdle
    /\ HistoryIdle
    /\ messages \in MessageLists
    /\ mpc = "call"
    /\ response = NoResponse
    /\ token_count = 0
    /\ model = ""

\* choose_model(messages), the endpoint answering resp
ChooseModel ==
    /\ mpc = "call"
    /\ \E resp \in Responses :
        LET r == choose_model(messages, resp) IN
        /\ response' = resp
        /\ mpc' = IF r.raised THEN "raised" ELSE "returned"
        /\ token_count' = r.token_count
        /\ model' = r.model
    /\ UNCHANGED <<messages, cleanVars, histVars>>

NextModel == ChooseModel

SpecModel == InitModel /\ [][NextModel]_vars

(* Claims about choose_model, under SpecModel *)

\* C4: the model returned is the smallest tier exactly when the count
\* obtained is at most 8000, the medium tier exactly when it is above 8000
\* and at most 32000, the largest tier exactly when it is above 32000.
C4_TierByCount ==
    mpc = "returned" =>
        /\ model = "moonshot-v1-8k" <=> token_count <= Tenths(8000)
        /\ model = "moonshot-v1-32k" <=>
               (Tenths(8000) < token_count /\ token_count <= Tenths(32000))
        /\ model = "moonshot-v1-128k" <=> token_count > Tenths(32000)

\* C4, the case reached: the endpoint reports 8001 tokens and the medium
\* tier is returned.
C4_Witness ==
    /\ mpc = "returned"
    /\ response.status_code = 200
    /\ token_count = Tenths(8001)
    /\ model = "moonshot-v1-32k"

\* C5: when the estimate call fails, by a non-200 response or by a network
\* error, choose_model does not raise: it returns a tier chosen from the
\* word count of the joined contents times 1.3.
C5_FailureFallsBack ==
    (mpc # "call" /\ (response.kind = "network_error" \/ response.status_code # 200)) =>
        /\ mpc = "returned"
        /\ token_count = 13 * WordCount(JoinContents(messages), FALSE)
        /\ model \in {models[k] : k \in 1..Len(models)}

----------------------------------------------------------------------------
(* The history file, lines 182-202 and 233-288 *)

(* A dict is the sequence of its <<key, value>> pairs, in insertion order.   *)
(* The content of the file is a sequence of JSON tokens: <<"[">>, <<"]">>,  *)
(* <<"{">>, <<"}">> and one <<key, value>> per member of an object.          *)

\* lines 185-191
summary_data(youtube_url, video_title, reading_time, summary, timestamp) ==
    << <<"youtube_url", youtube_url>>,
       <<"video_title", video_title>>,
       <<"reading_time", reading_time>>,
       <<"summary", summary>>,
       <<"timestamp", timestamp>> >>

\* item[key]: the value of the last member named key.
Get(item, key) ==
    LET at == {k \in 1..Len(item) : item[k][1] = key}
        k  == CHOOSE m \in at : \A n \in at : n <= m
    IN  item[k][2]

RECURSIVE DumpItems(_)
DumpItems(history) ==
    IF history = <<>> THEN <<>>
    ELSE <<<<"{">>>> \o Head(history) \o <<<<"}">>>> \o DumpItems(Tail(history))

\* json.dump(history, f, indent=2): the text written, lines 202 and 255
JsonDump(history) == <<<<"[">>>> \o DumpItems(history) \o <<<<"]">>>>

JSONDecodeError == [ok |-> FALSE, value |-> <<>>]

\* The objects of an array from token p on, acc holding those read so far:
\* every object closes, only members stand inside one, and nothing follows
\* the closing "]".
RECURSIVE LoadItems(_, _, _)
LoadItems(content, p, acc) ==
    IF p > Len(content) THEN JSONDecodeError
    ELSE IF content[p] = <<"]">>
         THEN IF p = Len(content) THEN [ok |-> TRUE, value |-> acc] ELSE JSONDecodeError
    ELSE IF content[p] = <<"{">>
         THEN LET q == FindFirst(content, p + 1, {<<"}">>}) IN
              IF q # 0 /\ \A k \in (p + 1)..(q - 1) : Len(content[k]) = 2
              THEN LoadItems(content, q + 1, Append(acc, SubSeq(content, p + 1, q - 1)))
              ELSE JSONDecodeError
    ELSE JSONDecodeError

\* json.load(f): the list read, or JSONDecodeError (an empty or mangled file)
JsonLoad(content) ==
    IF content # <<>> /\ content[1] = <<"[">>
    THEN LoadItems(content, 2, <<>>)
    ELSE JSONDecodeError

\* open(history_file, 'w'): the file exists from now on and is empty
OpenTruncate(f) == [exists |-> TRUE, content |-> <<>>]

\* The write of a handle opened with 'w', flushed when the with block closes
\* it: the text goes to offset 0 and what the file holds beyond it stays.
WriteAtStart(f, text) ==
    [exists |-> TRUE,
     content |-> text \o SubSeq(f.content, Len(text) + 1, Len(f.content))]

\* lines 201-202 and 254-255, nothing else touching the file meanwhile
WriteHistory(f, history) == WriteAtStart(OpenTruncate(f), JsonDump(history))

\* lines 193-197 and 236-240: the list in the file, [] without a file
ReadHistory(f) ==
    IF f.exists THEN JsonLoad(f.content) ELSE [ok |-> TRUE, value |-> <<>>]

\* line 199 with the new record put first (insert(0, ...) for append)
PrependRecord(history, record) == <<record>> \o history

\* line 199
AppendRecord(history, record) == Append(history, record)

\* line 252 with the comparison inverted (== for !=): the named records are
\* the ones kept.
RECURSIVE OnlyTimestamp(_, _)
OnlyTimestamp(history, timestamp) ==
    IF history = <<>> THEN <<>>
    ELSE IF Get(Head(history), "timestamp") = timestamp
         THEN <<Head(history)>> \o OnlyTimestamp(Tail(history), timestamp)
         ELSE OnlyTimestamp(Tail(history), timestamp)

\* line 252: [item for item in history if item['timestamp'] != timestamp]
RECURSIVE WithoutTimestamp(_, _)
WithoutTimestamp(history, timestamp) ==
    IF history = <<>> THEN <<>>
    ELSE IF Get(Head(history), "timestamp") # timestamp
         THEN <<Head(history)>> \o WithoutTimestamp(Tail(history), timestamp)
         ELSE WithoutTimestamp(Tail(history), timestamp)

Raised(error) ==
    [kind |-> "raised", status |-> 500, body |-> error, filename |-> "", history |-> <<>>]

\* save_summary returns None; index goes on to render the result page.
Saved == [kind |-> "returned", status |-> 200, body |-> "", filename |-> "", history |-> <<>>]

\* line 242: render_template('history.html', history=history)
Page(history) ==
    [kind |-> "page", status |-> 200, body |-> "history.html", filename |-> "", history |-> history]

\* line 257: redirect(url_for('history'))
Redirect ==
    [kind |-> "redirect", status |-> 302, body |-> "/history", filename |-> "", history |-> <<>>]

\* lines 280 and 283
Text(body, status) ==
    [kind |-> "text", status |-> status, body |-> body, filename |-> "", history |-> <<>>]

\* lines 285-288: send_file of the content under the name
Attachment(content, filename) ==
    [kind |-> "attachment", status |-> 200, body |-> content, filename |-> filename, history |-> <<>>]

\* save_summary, lines 182-202: the file it leaves and what it gives back
save_summary(f, youtube_url, reading_time, summary, video_title, timestamp) ==
    LET read == ReadHistory(f) IN
    IF ~read.ok THEN [file |-> f, resp |-> Raised("JSONDecodeError")]
    ELSE LET history == AppendRecord(read.value,
                 summary_data(youtube_url, video_title, reading_time, summary, timestamp))
         IN  [file |-> WriteHistory(f, history), resp |-> Saved]

\* delete_summary, lines 245-257
delete_summary(f, timestamp) ==
    IF f.exists
    THEN LET read == JsonLoad(f.content) IN
         IF ~read.ok THEN [file |-> f, resp |-> Raised("JSONDecodeError")]
         ELSE [file |-> WriteHistory(f, WithoutTimestamp(read.value, timestamp)),
               resp |-> Redirect]
    ELSE [file |-> f, resp |-> Redirect]

\* next((item for item in history if item['timestamp'] == timestamp), None),
\* line 275: the first such item, <<>> standing for None
FirstWithTimestamp(history, timestamp) ==
    LET at == {k \in 1..Len(history) : Get(history[k], "timestamp") = timestamp} IN
    IF at = {} THEN <<>>
    ELSE history[CHOOSE k \in at : \A n \in at : k <= n]

\* download, lines 260-288. has_content tells whether the request carries a
\* content argument (request.args.get gives None without one).
download(f, file_type, has_content, content, timestamp) ==
    IF file_type \in {"summary", "transcript"}
    THEN IF has_content
         THEN Attachment(content, IF file_type = "summary" THEN "summary.md" ELSE "transcript.md")
         ELSE Raised("AttributeError")              \* None.encode, line 285
    ELSE IF file_type = "history_summary"
    THEN IF f.exists
         THEN LET read == JsonLoad(f.content) IN
              IF ~read.ok THEN Raised("JSONDecodeError")
              ELSE LET found == FirstWithTimestamp(read.value, timestamp) IN
                   IF found # <<>>
                   THEN Attachment(Get(found, "summary"), "summary_" \o timestamp \o ".md")
                   ELSE Text("Summary not found", 404)
         \* no file: neither content nor filename is bound when line 285 reads content
         ELSE Raised("UnboundLocalError")
    ELSE Text("Invalid file type", 400)

\* history, lines 233-242
history(f) ==
    LET read == ReadHistory(f) IN
    IF ~read.ok THEN Raised("JSONDecodeError") ELSE Page(read.value)

(* Inputs of the routes *)

\* Largest number of records the file is grown to.
MaxRecords == 3

Urls == {"https://youtu.be/1"}
Titles == {"title"}
ReadingTimes == {"5"}
Summaries == {"s1", "s2"}
\* datetime.now().isoformat() (line 184) is local wall-clock time: nothing
\* makes two calls give different values.
Timestamps == {"2024-01-01T10:00:00", "2024-01-01T10:00:01"}
FileTypes == {"summary", "transcript", "history_summary", "other"}

Request(op) == [NoRequest EXCEPT !.op = op]

Init ==
    /\ CleanIdle
    /\ ModelIdle
    /\ HistoryIdle

\* index calling save_summary (line 219)
SaveSummary ==
    /\ ReadHistory(file).ok /\ Len(ReadHistory(file).value) < MaxRecords
    /\ \E u \in Urls, t \in Titles, rt \in ReadingTimes, sm \in Summaries, ts \in Timestamps :
        LET r == save_summary(file, u, rt, sm, t, ts) IN
        /\ file' = r.file
        /\ last' = [Request("save") EXCEPT !.youtube_url = u, !.video_title = t,
                        !.reading_time = rt, !.summary = sm, !.timestamp = ts,
                        !.before = file, !.resp = r.resp]
    /\ UNCHANGED <<procs, started, saved, named, overlaps, cleanVars, modelVars>>

\* GET /history
History ==
    /\ last' = [Request("history") EXCEPT !.before = file, !.resp = history(file)]
    /\ UNCHANGED <<file, procs, started, saved, named, overlaps, cleanVars, modelVars>>

\* GET /delete/<timestamp>
DeleteSummary ==
    /\ \E ts \in Timestamps :
        LET r == delete_summary(file, ts) IN
        /\ file' = r.file
        /\ last' = [Request("delete") EXCEPT !.timestamp = ts, !.before = file, !.resp = r.resp]
    /\ UNCHANGED <<procs, started, saved, named, overlaps, cleanVars, modelVars>>

\* GET /download/<file_type>
Download ==
    /\ \E ft \in FileTypes, hc \in BOOLEAN, ts \in Timestamps :
        LET c == IF hc THEN "text" ELSE "" IN
        last' = [Request("download") EXCEPT !.file_type = ft, !.has_content = hc,
                     !.content = c, !.timestamp = ts, !.before = file,
                     !.resp = download(file, ft, hc, c, ts)]
    /\ UNCHANGED <<file, procs, started, saved, named, overlaps, cleanVars, modelVars>>

Next == SaveSummary \/ History \/ DeleteSummary \/ Download

Spec == Init /\ [][Next]_vars

(* Claims about the routes served one at a time, under Spec *)

\* What GET /history lists from a file.
Listing(f) == history(f).history

RemoveAt(q, k) == SubSeq(q, 1, k - 1) \o SubSeq(q, k + 1, Len(q))

HasTimestamp(q, timestamp) ==
    \E k \in 1..Len(q) : Get(q[k], "timestamp") = timestamp

\* C6: delete_summary(ts), ts being the timestamp of a saved record, removes
\* that one record and leaves every other record, unchanged and in order.
C6_DeleteRemovesExactlyOne ==
    (last.op = "delete" /\ HasTimestamp(Listing(last.before), last.timestamp)) =>
        \E k \in 1..Len(Listing(last.before)) :
            /\ Get(Listing(last.before)[k], "timestamp") = last.timestamp
            /\ Listing(file) = RemoveAt(Listing(last.before), k)

\* C7: after save_summary the listing is the listing from before the save,
\* unchanged and in order, followed by one record that holds the arguments
\* and the timestamp the save took; with or without a file before.
C7_SaveThenList ==
    last.op = "save" =>
        LET before == Listing(last.before)
            page == history(file)
            n == Len(before)
        IN  /\ last.resp.kind = "returned"
            /\ page.kind = "page"
            /\ Len(page.history) = n + 1
            /\ SubSeq(page.history, 1, n) = before
            /\ Get(page.history[n + 1], "youtube_url") = last.youtube_url
            /\ Get(page.history[n + 1], "video_title") = last.video_title
            /\ Get(page.history[n + 1], "reading_time") = last.reading_time
            /\ Get(page.history[n + 1], "summary") = last.summary
            /\ Get(page.history[n + 1], "timestamp") = last.timestamp
            /\ Len(page.history[n + 1]) = 5

\* C7, the case reached: a save into a file that held two different records.
C7_Witness ==
    /\ last.op = "save"
    /\ last.before.exists
    /\ Len(Listing(last.before)) = 2
    /\ Listing(last.before)[1] # Listing(last.before)[2]
    /\ Len(Listing(file)) = 3

\* C8: without a history file every route takes the history as empty:
\* listing gives an empty history, delete changes nothing and redirects,
\* save creates the file with the one record, and the download of a
\* history_summary answers "Summary not found" without raising.
C8_AbsentFileIsEmptyHistory ==
    (last.op # "none" /\ ~last.before.exists) =>
        /\ last.op = "history" => last.resp = Page(<<>>)
        /\ last.op = "delete" => (file = last.before /\ last.resp = Redirect)
        /\ last.op = "save" =>
               /\ file.exists
               /\ last.resp.kind = "returned"
               /\ Listing(file) = <<summary_data(last.youtube_url, last.video_title,
                                       last.reading_time, last.summary, last.timestamp)>>
        /\ (last.op = "download" /\ last.file_type = "history_summary") =>
               last.resp = Text("Summary not found", 404)

----------------------------------------------------------------------------
(* The writers of the history file on concurrent worker threads.           *)
(* A handler touches the file three times: it reads it (the with block of  *)
(* lines 194-195 or 249-250), it opens it for writing, which empties it    *)
(* (line 201 or 254), and it writes its list when that with block closes   *)
(* the handle (line 202 or 255). Other threads run between these steps.    *)

\* Largest number of requests started.
MaxRequests == 3

Busy(p) == procs[p].pc # "idle"

\* The overlaps a request of kind op makes when it starts on thread p.
OverlapsWith(p, op) == {{op, procs[q].op} : q \in {r \in Procs \ {p} : Busy(r)}}

\* save_summary up to line 199: the timestamp, the record, the list read and
\* appended to. The summary text tells the requests apart.
BeginSave(p) ==
    /\ ~Busy(p)
    /\ started < MaxRequests
    /\ \E u \in Urls, t \in Titles, rt \in ReadingTimes, ts \in Timestamps :
        LET record == summary_data(u, t, rt, ToString(started + 1), ts)
            read == ReadHistory(file)
        IN  procs' = [procs EXCEPT ![p] =
                IF read.ok
                THEN [pc |-> "open", op |-> "save", record |-> record,
                      history |-> AppendRecord(read.value, record)]
                ELSE IdleProc]                      \* JSONDecodeError leaves the handler
    /\ started' = started + 1
    /\ overlaps' = overlaps \cup OverlapsWith(p, "save")
    /\ UNCHANGED <<file, last, saved, named, cleanVars, modelVars>>

\* delete_summary up to line 252; without a file it redirects at once.
BeginDelete(p) ==
    /\ ~Busy(p)
    /\ started < MaxRequests
    /\ \E ts \in Timestamps :
        /\ named' = named \cup {ts}
        /\ LET read == JsonLoad(file.content) IN
           procs' = [procs EXCEPT ![p] =
                IF file.exists /\ read.ok
                THEN [pc |-> "open", op |-> "delete", record |-> <<>>,
                      history |-> WithoutTimestamp(read.value, ts)]
                ELSE IdleProc]
    /\ started' = started + 1
    /\ overlaps' = overlaps \cup OverlapsWith(p, "delete")
    /\ UNCHANGED <<file, last, saved, cleanVars, modelVars>>

\* open(history_file, 'w'), lines 201 and 254
OpenForWrite(p) ==
    /\ procs[p].pc = "open"
    /\ file' = OpenTruncate(file)
    /\ procs' = [procs EXCEPT ![p].pc = "dump"]
    /\ UNCHANGED <<last, started, saved, named, overlaps, cleanVars, modelVars>>

\* json.dump and the close of the handle, lines 202 and 255; the handler
\* returns.
Dump(p) ==
    /\ procs[p].pc = "dump"
    /\ file' = WriteAtStart(file, JsonDump(procs[p].history))
    /\ saved' = IF procs[p].op = "save" THEN saved \cup {procs[p].record} ELSE saved
    /\ procs' = [procs EXCEPT ![p] = IdleProc]
    /\ UNCHANGED <<last, started, named, overlaps, cleanVars, modelVars>>

NextRace ==
    \E p \in Procs : BeginSave(p) \/ BeginDelete(p) \/ OpenForWrite(p) \/ Dump(p)

SpecRace == Init /\ [][NextRace]_vars

(* Claims about concurrent writers, under SpecRace *)

Quiet == \A p \in Procs : ~Busy(p)

InFile(record) ==
    LET read == ReadHistory(file) IN
    read.ok /\ \E k \in 1..Len(read.value) : read.value[k] = record

\* A record whose save completed and that no delete named is not in the file.
Lost == \E record \in saved : Get(record, "timestamp") \notin named /\ ~InFile(record)

\* C9: concurrent writers can race: a record whose save_summary completed
\* and which no delete named can be absent from the file once the requests
\* are over (C9_Witness is such a state), and it is absent only when
\* two requests overlapped.
C9_LostOnlyByOverlap ==
    (Quiet /\ Lost) => overlaps # {}

\* C9, the case reached: two save_summary calls completed, no delete ran,
\* the file is a well-formed list and one of the two records is not in it.
C9_Witness ==
    /\ Quiet
    /\ Cardinality(saved) = 2
    /\ named = {}
    /\ overlaps = {{"save"}}
    /\ ReadHistory(file).ok
    /\ Lost

\* The same between a save_summary and a delete_summary: the save completed,
\* the delete named another timestamp, and the record is not in the file.
C9_SaveDeleteLost ==
    /\ Quiet
    /\ overlaps = {{"save", "delete"}}
    /\ ReadHistory(file).ok
    /\ Lost

====
